---- MODULE Spec2Model ----
(***************************************************************************)
(* Agenda tree, segment mapping and segment reassignment of max-meeting.   *)
(* The agenda store is the "agendas" table (backend/app/models/agenda.py)  *)
(* as AgendaService (backend/app/services/agenda.py) reads and writes it.  *)
(* A row's id is its index in the sequence "agendas"; NULL is 0.           *)
(***************************************************************************)
EXTENDS Integers, Sequences, FiniteSets, TLC

\* ------------------------------------------------------------------ bounds
\* Rows the agendas table may hold: in the create/move development, and in
\* the developments that also update, delete and reorder.
MaxAgendas == 3
MaxStoreAgendas == 2
\* Largest order_num a request carries, deepest level, longest reorder list.
MaxOrder == 1
MaxLevel == 3
MaxItems == 2
\* Ranges one agenda's time_segments may hold, results in one oracle answer.
MaxRanges == 2
MaxTranscripts == 2
MaxSegments == 2
MaxResults == 2
\* Database sessions that may hold a transaction at the same time.
MaxSessions == 2
\* Move requests one session's connection serves, one after the other.
MaxRequests == 2

\* Existing, non-deleted meetings, and one id no meeting has.
Meetings == {1, 2}
NoMeeting == 3
MeetingInputs == Meetings \cup {NoMeeting}

NULL == 0
\* A field the request does not carry.
UNSET == -1
\* None where a number of seconds is expected.
NoTime == -1

VARIABLES
    agendas,    \* the agendas table
    capacity,   \* how many rows the development lets the table hold
    last,       \* the last call: its name, its outcome, what it returned
    transcripts, \* the transcripts table: meeting_id and segments of each row
    analysis,   \* the analyze_segments() result the router is about to return
    status,     \* the status column of each meeting
    tx          \* the open transaction of each database session

vars == <<agendas, capacity, last, transcripts, analysis, status, tx>>

\* What the agenda store's calls leave alone.
segvars == <<transcripts, analysis, status, tx>>

\* ------------------------------------------------------------- the table
Ids(ag) == 1..Len(ag)

\* The ids a caller may send: every row, and one id no row has.
IdInputs(cap) == 1..(cap + 1)
OrderInputs == 0..MaxOrder

Exists(ag, id) == id \in Ids(ag)

\* WHERE Agenda.id == id AND Agenda.deleted_at IS NULL
Active(ag, id) == Exists(ag, id) /\ ~ag[id].deleted

\* SELECT ... WHERE Agenda.parent_id == id  (no deleted_at filter)
Children(ag, id) == {c \in Ids(ag) : ag[c].parent_id = id}

Max(S) == CHOOSE x \in S : \A y \in S : y <= x

\* get_next_order_num without its deleted_at condition.
NextOrderNumAnyRow(ag, m, p) ==
    LET sib == {i \in Ids(ag) : ag[i].meeting_id = m /\ ag[i].parent_id = p}
    IN IF sib = {} THEN 0 ELSE Max({ag[i].order_num : i \in sib}) + 1

\* get_next_order_num: coalesce(max(order_num), -1) + 1 over the active rows
\* of the meeting with that parent_id.
NextOrderNum(ag, m, p) ==
    LET sib == {i \in Ids(ag) : /\ ag[i].meeting_id = m
                                /\ ~ag[i].deleted
                                /\ ag[i].parent_id = p}
    IN IF sib = {} THEN 0 ELSE Max({ag[i].order_num : i \in sib}) + 1

\* get_parent_level, called once the parent is known to be active.
ParentLevel(ag, p) == IF p = NULL THEN 0 ELSE ag[p].level + 1

\* _is_descendant(pd, anc): a depth-first walk over child lookups with no
\* visited set.  The child query has no ORDER BY, so the walk may take the
\* children in any order; a walk that meets a row already on its path never
\* returns and ends in RecursionError ("recursion").
RECURSIVE DescOutcomes(_, _, _, _)
DescOutcomes(ag, pd, anc, path) ==
    LET ch == Children(ag, anc)
        sub(c) == IF c \in path \cup {anc}
                  THEN {"recursion"}
                  ELSE DescOutcomes(ag, pd, c, path \cup {anc})
    IN IF pd \in ch THEN {"true"}
       ELSE {o \in {"true", "recursion"} : \E c \in ch : o \in sub(c)}
            \cup {o \in {"false"} : \A c \in ch : "false" \in sub(c)}

IsDescendantOutcomes(ag, pd, anc) == DescOutcomes(ag, pd, anc, {})

\* Rows below id by parent_id, at any depth.
RECURSIVE Below(_, _, _)
Below(ag, S, n) ==
    IF n = 0 THEN S
    ELSE Below(ag, S \cup UNION {Children(ag, c) : c \in S}, n - 1)

Descendants(ag, id) ==
    LET ch == Children(ag, id)
    IN IF ch = {} THEN {} ELSE Below(ag, ch, Len(ag))

\* _update_descendant_levels(id, diff): adds diff to every row below id; the
\* walk has no visited set, so a cycle below id ends it in RecursionError.
UpdateLevelsDiverges(ag, id) ==
    \E d \in Descendants(ag, id) \cup {id} : d \in Descendants(ag, d)

UpdateDescendantLevels(ag, id, diff) ==
    [i \in Ids(ag) |->
        IF i \in Descendants(ag, id)
        THEN [ag[i] EXCEPT !.level = @ + diff]
        ELSE ag[i]]

Result(ag, err) == [agendas |-> ag, err |-> err]

\* create_agenda(meeting_id, AgendaCreate(parent_id=p))
CreateAgenda(ag, m, p) ==
    IF m \notin Meetings THEN Result(ag, "not_found")
    ELSE IF p # NULL /\ ~Active(ag, p) THEN Result(ag, "not_found")
    ELSE IF p # NULL /\ ag[p].meeting_id # m THEN Result(ag, "parent_other_meeting")
    ELSE Result(Append(ag, [meeting_id |-> m,
                            parent_id |-> p,
                            level |-> ParentLevel(ag, p),
                            order_num |-> NextOrderNum(ag, m, p),
                            deleted |-> FALSE,
                            started_at_seconds |-> NoTime,
                            time_segments |-> <<>>]),
                "ok")

\* move_agenda making room at the new parent: the siblings there with an
\* order_num of o or more move up by one.
MoveAgendaRenumbering(ag, id, p, o) ==
    IF ~Active(ag, id) THEN {Result(ag, "not_found")}
    ELSE IF p # NULL /\ ~Active(ag, p) THEN {Result(ag, "not_found")}
    ELSE
      LET desc == IF p = NULL THEN {"false"} ELSE IsDescendantOutcomes(ag, p, id)
          new_level == ParentLevel(ag, p)
          level_diff == new_level - ag[id].level
          moved == IF level_diff # 0
                   THEN UpdateDescendantLevels(ag, id, level_diff)
                   ELSE ag
          shifted == [i \in Ids(ag) |->
                        IF i # id /\ moved[i].parent_id = p /\ moved[i].order_num >= o
                        THEN [moved[i] EXCEPT !.order_num = @ + 1]
                        ELSE moved[i]]
          after == [shifted EXCEPT ![id].parent_id = p,
                                   ![id].level = new_level,
                                   ![id].order_num = o]
      IN {Result(ag, "own_descendant") : d \in desc \cap {"true"}}
         \cup {Result(ag, "recursion") : d \in desc \cap {"recursion"}}
         \cup {IF p # NULL /\ ag[p].meeting_id # ag[id].meeting_id
               THEN Result(ag, "different_meeting")
               ELSE IF level_diff # 0 /\ UpdateLevelsDiverges(ag, id)
               THEN Result(ag, "recursion")
               ELSE Result(after, "ok") : d \in desc \cap {"false"}}

\* move_agenda(agenda_id, AgendaMoveRequest(new_parent_id=p, new_order_num=o)):
\* every result the call can have.  An exception leaves the table as it was
\* (get_db rolls the session back).
MoveAgenda(ag, id, p, o) ==
    IF ~Active(ag, id) THEN {Result(ag, "not_found")}
    ELSE IF p # NULL /\ ~Active(ag, p) THEN {Result(ag, "not_found")}
    ELSE
      LET desc == IF p = NULL THEN {"false"} ELSE IsDescendantOutcomes(ag, p, id)
          new_level == ParentLevel(ag, p)
          level_diff == new_level - ag[id].level
          moved == IF level_diff # 0
                   THEN UpdateDescendantLevels(ag, id, level_diff)
                   ELSE ag
          after == [moved EXCEPT ![id].parent_id = p,
                                 ![id].level = new_level,
                                 ![id].order_num = o]
      IN {Result(ag, "own_descendant") : d \in desc \cap {"true"}}
         \cup {Result(ag, "recursion") : d \in desc \cap {"recursion"}}
         \cup {IF p # NULL /\ ag[p].meeting_id # ag[id].meeting_id
               THEN Result(ag, "different_meeting")
               ELSE IF level_diff # 0 /\ UpdateLevelsDiverges(ag, id)
               THEN Result(ag, "recursion")
               ELSE Result(after, "ok") : d \in desc \cap {"false"}}

\* update_agenda refusing a parent of another meeting, as move_agenda does.
UpdateAgendaSameMeeting(ag, id, o, p) ==
    IF ~Active(ag, id) THEN Result(ag, "not_found")
    ELSE IF p # UNSET /\ p # NULL /\ ~Exists(ag, p) THEN Result(ag, "integrity")
    ELSE IF p # UNSET /\ p # NULL /\ ag[p].meeting_id # ag[id].meeting_id
    THEN Result(ag, "different_meeting")
    ELSE Result([ag EXCEPT ![id].order_num = IF o # UNSET THEN o ELSE @,
                           ![id].parent_id = IF p # UNSET THEN p ELSE @],
                "ok")

\* update_agenda(agenda_id, AgendaUpdate): sets the fields the request
\* carries (exclude_unset); of them the model keeps order_num and parent_id,
\* each either UNSET or a value.  parent_id is written as sent: only the
\* foreign key to agendas.id is checked, at flush.
UpdateAgenda(ag, id, o, p) ==
    IF ~Active(ag, id) THEN Result(ag, "not_found")
    ELSE IF p # UNSET /\ p # NULL /\ ~Exists(ag, p) THEN Result(ag, "integrity")
    ELSE Result([ag EXCEPT ![id].order_num = IF o # UNSET THEN o ELSE @,
                           ![id].parent_id = IF p # UNSET THEN p ELSE @],
                "ok")

\* delete_agenda(agenda_id): soft delete of the one row.
DeleteAgenda(ag, id) ==
    IF ~Active(ag, id) THEN Result(ag, "not_found")
    ELSE Result([ag EXCEPT ![id].deleted = TRUE], "ok")

\* The UPDATE without its meeting_id condition.
ReorderMatchesAnyMeeting(ag, m, item) ==
    {i \in Ids(ag) : i = item.id /\ ~ag[i].deleted}

\* One UPDATE of reorder_agendas: the rows it matches.
ReorderMatches(ag, m, item) ==
    {i \in Ids(ag) : i = item.id /\ ag[i].meeting_id = m /\ ~ag[i].deleted}

\* The loop returning after its first item.
ReorderLoopFirstOnly(ag, m, items, count) ==
    IF items = <<>> THEN [agendas |-> ag, err |-> "ok", count |-> count]
    ELSE LET item == Head(items)
             hit == ReorderMatches(ag, m, item)
             ag2 == [i \in Ids(ag) |->
                        IF i \in hit
                        THEN [ag[i] EXCEPT !.order_num = item.order_num]
                        ELSE ag[i]]
         IN [agendas |-> ag2, err |-> "ok", count |-> count + Cardinality(hit)]

\* reorder_agendas(meeting_id, items): one UPDATE per item, in list order;
\* updated_count sums the rowcounts.
RECURSIVE ReorderLoop(_, _, _, _)
ReorderLoop(ag, m, items, count) ==
    IF items = <<>> THEN [agendas |-> ag, err |-> "ok", count |-> count]
    ELSE LET item == Head(items)
             hit == ReorderMatches(ag, m, item)
             ag2 == [i \in Ids(ag) |->
                        IF i \in hit
                        THEN [ag[i] EXCEPT !.order_num = item.order_num]
                        ELSE ag[i]]
         IN ReorderLoop(ag2, m, Tail(items), count + Cardinality(hit))

ReorderAgendas(ag, m, items) ==
    IF m \notin Meetings THEN [agendas |-> ag, err |-> "not_found", count |-> 0]
    ELSE ReorderLoop(ag, m, items, 0)

\* A ReorderRequest: between 1 and MaxItems items.
ReorderItems(cap) == [id : IdInputs(cap), order_num : OrderInputs]
ItemLists(cap) == UNION {[1..n -> ReorderItems(cap)] : n \in 1..MaxItems}

\* The errors the service raises for a tree-integrity violation.
Invalid(err) == err \in {"own_descendant", "different_meeting", "parent_other_meeting"}

\* Levels stay within the model's range.
LevelsInRange(ag) == \A i \in Ids(ag) : ag[i].level \in 0..MaxLevel

\* ------------------------------------------------------ transcript segments
\* A transcript is a row [meeting_id, segments]; a segment is the JSON object
\* the speech-to-text worker stores (start, end, text) plus the keys
\* move_segment adds.  A key that is absent reads as NULL / "unset".
TranscriptsOf(trs, m) == {t \in DOMAIN trs : trs[t].meeting_id = m}

\* meeting.transcripts has no ORDER BY: the rows come in any order.
TranscriptOrders(trs, m) ==
    {f \in [1..Cardinality(TranscriptsOf(trs, m)) -> TranscriptsOf(trs, m)] :
        \A j, k \in DOMAIN f : j # k => f[j] # f[k]}

\* The positions <<transcript, index>> of the segments, flattened in the
\* order the code walks them: the position of an entry, less one, is the
\* segment's global index.
RECURSIVE Flatten(_, _, _)
Flatten(trs, order, k) ==
    IF k > Len(order) THEN <<>>
    ELSE [j \in 1..Len(trs[order[k]].segments) |-> <<order[k], j>>]
         \o Flatten(trs, order, k + 1)

FlatOrders(trs, m) == {Flatten(trs, o, 1) : o \in TranscriptOrders(trs, m)}

SegmentAt(trs, pos) == trs[pos[1]].segments[pos[2]]

NoPos == <<0, 0>>

SegResult(ag, trs, err, pos) ==
    [agendas |-> ag, transcripts |-> trs, err |-> err, pos |-> pos]

\* The writes of move_segment once segment and target agenda are found.
MoveSegmentWrites(ag, trs, pos, target, accept) ==
    LET seg == SegmentAt(trs, pos)
        seg2 == [seg EXCEPT !.matched_agenda_id = target,
                            !.suggestion_accepted = IF accept THEN "true" ELSE "false",
                            !.suggested_agenda_id = IF accept THEN NULL ELSE @]
        new_range == [start |-> seg.start, end |-> seg.end]
    IN SegResult([ag EXCEPT ![target].time_segments = Append(@, new_range)],
                 [trs EXCEPT ![pos[1]].segments[pos[2]] = seg2],
                 "ok", pos)

\* move_segment with the segment write committed on its own, before the
\* agenda's time_segments are touched.
MoveSegmentSegmentFirst(ag, trs, m, idx, target, accept) ==
    IF m \notin Meetings THEN {SegResult(ag, trs, "not_found", NoPos)}
    ELSE UNION {
        IF idx + 1 \notin DOMAIN flat
        THEN {SegResult(ag, trs, "segment_not_found", NoPos)}
        ELSE IF ~(Exists(ag, target) /\ ag[target].meeting_id = m)
        THEN {SegResult(ag, trs, "target_not_found", NoPos)}
        ELSE {MoveSegmentWrites(ag, trs, flat[idx + 1], target, accept),
              SegResult(ag,
                        MoveSegmentWrites(ag, trs, flat[idx + 1], target, accept).transcripts,
                        "error", flat[idx + 1])}
        : flat \in FlatOrders(trs, m)}

\* PATCH /meetings/{m}/segments/{idx}/move: the router's meeting lookup,
\* SegmentAnalyzer.move_segment and the commit; every result the call can
\* have.  Both writes are made on objects of one session and are flushed and
\* committed in one transaction: an exception on the way ("error": the
\* attribute access, the flush or the commit fails) rolls both back.
MoveSegment(ag, trs, m, idx, target, accept) ==
    IF m \notin Meetings THEN {SegResult(ag, trs, "not_found", NoPos)}
    ELSE UNION {
        IF idx + 1 \notin DOMAIN flat
        THEN {SegResult(ag, trs, "segment_not_found", NoPos)}
        ELSE IF ~(Exists(ag, target) /\ ag[target].meeting_id = m)
        THEN {SegResult(ag, trs, "target_not_found", NoPos)}
        ELSE {MoveSegmentWrites(ag, trs, flat[idx + 1], target, accept),
              SegResult(ag, trs, "error", flat[idx + 1])}
        : flat \in FlatOrders(trs, m)}

\* MIN_CONFIDENCE = 0.7, in hundredths; MIN_TEXT_LENGTH and SKIP_PATTERNS
\* are folded into a segment's text kind: "short" is a text _should_skip_segment
\* skips (every skip pattern is shorter than MIN_TEXT_LENGTH), "normal" is not.
MIN_CONFIDENCE == 70

ShouldSkipSegment(text) == text = "short"

\* _find_matched_agenda(segment_start, agendas) for one iteration order.
RangeCovers(ts, s) == ts.start <= s /\ (ts.end = NoTime \/ s < ts.end)

Owns(a, s) ==
    IF a.time_segments # <<>>
    THEN \E k \in DOMAIN a.time_segments : RangeCovers(a.time_segments[k], s)
    ELSE a.started_at_seconds # NoTime /\ s >= a.started_at_seconds

FindMatchedAgenda(ag, s, order) ==
    LET hits == {k \in DOMAIN order : Owns(ag[order[k]], s)}
    IN IF hits = {} THEN NULL
       ELSE order[CHOOSE k \in hits : \A j \in hits : k <= j]

\* The active agendas of the meeting, and the orders meeting.agendas
\* (ORDER BY order_num) may list them in.
ActiveOf(ag, m) == {i \in Ids(ag) : ag[i].meeting_id = m /\ ~ag[i].deleted}

AgendaOrders(ag, m) ==
    {f \in [1..Cardinality(ActiveOf(ag, m)) -> ActiveOf(ag, m)] :
        /\ \A j, k \in DOMAIN f : j # k => f[j] # f[k]
        /\ \A j, k \in DOMAIN f : j < k => ag[f[j]].order_num <= ag[f[k]].order_num}

\* The filter without its look at the stored suggested_agenda_id.
ToAnalyzeIgnoringStored(trs, flat, force) ==
    {g \in 0..(Len(flat) - 1) : ~ShouldSkipSegment(SegmentAt(trs, flat[g + 1]).text)}

\* The filter of analyze_segments: the global indexes sent to the oracle.
ToAnalyze(trs, flat, force) ==
    {g \in 0..(Len(flat) - 1) :
        LET seg == SegmentAt(trs, flat[g + 1])
        IN /\ force \/ seg.suggested_agenda_id = NULL
           /\ ~ShouldSkipSegment(seg.text)}

\* Suggestions without the confidence test.
RECURSIVE SuggestionsAnyConfidence(_, _, _, _, _, _, _)
SuggestionsAnyConfidence(ag, trs, flat, order, sent, results, k) ==
    IF k > Len(results) THEN <<>>
    ELSE LET res == results[k]
             rest == SuggestionsAnyConfidence(ag, trs, flat, order, sent, results, k + 1)
         IN IF res.index = NoTime \/ res.index \notin sent THEN rest
            ELSE IF ~res.is_matched_correctly /\ res.suggested_agenda_id # NULL
            THEN <<[segment_index |-> res.index,
                    current_agenda_id |->
                        FindMatchedAgenda(ag, SegmentAt(trs, flat[res.index + 1]).start, order),
                    suggested_agenda_id |-> res.suggested_agenda_id,
                    confidence |-> res.confidence,
                    src |-> k]>> \o rest
            ELSE rest

\* The loop over the oracle's results: one suggestion per result that
\* names an analyzed segment, is not matched, carries a suggested id and has
\* confidence >= MIN_CONFIDENCE.  src is the result's position in the answer.
RECURSIVE Suggestions(_, _, _, _, _, _, _)
Suggestions(ag, trs, flat, order, sent, results, k) ==
    IF k > Len(results) THEN <<>>
    ELSE LET res == results[k]
             rest == Suggestions(ag, trs, flat, order, sent, results, k + 1)
         IN IF res.index = NoTime \/ res.index \notin sent THEN rest
            ELSE IF ~res.is_matched_correctly
                    /\ res.suggested_agenda_id # NULL
                    /\ res.confidence >= MIN_CONFIDENCE
            THEN <<[segment_index |-> res.index,
                    current_agenda_id |->
                        FindMatchedAgenda(ag, SegmentAt(trs, flat[res.index + 1]).start, order),
                    suggested_agenda_id |-> res.suggested_agenda_id,
                    confidence |-> res.confidence,
                    src |-> k]>> \o rest
            ELSE rest

\* The exchange with the oracle: the global indexes of the segments the prompt
\* was built from, under which force_reanalyze, and the answer.
NotAsked == [kind |-> "not_asked", results |-> <<>>, prompt |-> {}, force |-> FALSE]

Asked(oracle, sent, force) ==
    [kind |-> oracle.kind, results |-> oracle.results, prompt |-> sent, force |-> force]

AnalysisResult(state, total, analyzed, sugg, error, oracle) ==
    [state |-> state, total_segments |-> total, analyzed |-> analyzed,
     mismatches_found |-> Len(sugg), suggestions |-> sugg, error |-> error,
     oracle |-> oracle]

\* analyze_segments(meeting, force_reanalyze) for one order of
\* meeting.transcripts (flat), one order of meeting.agendas and one oracle
\* answer.  The oracle is asked only when a segment is left to analyze; its
\* answer is a call failure, text that is no JSON, JSON that is no list of
\* objects (the result loop raises) or a list of result objects.
AnalyzeSegments(ag, trs, flat, force, oracle, order) ==
    LET total == Len(flat)
        sent == ToAnalyze(trs, flat, force)
    IN IF total = 0 THEN AnalysisResult("returned", 0, 0, <<>>, "none", NotAsked)
       ELSE IF sent = {}
       THEN AnalysisResult("returned", total, 0, <<>>, "none", NotAsked)
       ELSE IF oracle.kind = "call_failure"
       THEN AnalysisResult("returned", total, 0, <<>>, "call", Asked(oracle, sent, force))
       ELSE IF oracle.kind = "not_json"
       THEN AnalysisResult("returned", total, Cardinality(sent), <<>>, "parse", Asked(oracle, sent, force))
       ELSE IF oracle.kind = "malformed"
       THEN AnalysisResult("raised", 0, 0, <<>>, "none", Asked(oracle, sent, force))
       ELSE AnalysisResult("returned", total, Cardinality(sent),
                           Suggestions(ag, trs, flat, order, sent, oracle.results, 1),
                           "none", Asked(oracle, sent, force))

\* ----------------------------------------------------------------- actions
NoCall == [op |-> "none", err |-> "ok", ret |-> 0, n |-> 0]

Call(op, err, ret, n) == [op |-> op, err |-> err, ret |-> ret, n |-> n]

NoAnalysis == AnalysisResult("none", 0, 0, <<>>, "none", NotAsked)

\* No request with a session of its own is under way.
NoSessions == <<>>

\* MeetingService.create stores every meeting as a draft.
NewMeetings == [m \in Meetings |-> "draft"]

InitTable(cap) ==
    /\ agendas = <<>>
    /\ capacity = cap
    /\ last = NoCall
    /\ transcripts = <<>>
    /\ analysis = NoAnalysis
    /\ status = NewMeetings
    /\ tx = NoSessions

Create ==
    /\ Len(agendas) < capacity
    /\ \E m \in MeetingInputs, p \in {NULL} \cup IdInputs(capacity) :
         LET r == CreateAgenda(agendas, m, p)
         IN /\ agendas' = r.agendas
            /\ last' = Call("create", r.err, 0, 0)
    /\ UNCHANGED <<capacity, segvars>>

Move ==
    /\ \E id \in IdInputs(capacity), p \in {NULL} \cup IdInputs(capacity),
          o \in OrderInputs :
         \E r \in MoveAgenda(agendas, id, p, o) :
            /\ LevelsInRange(r.agendas)
            /\ agendas' = r.agendas
            /\ last' = Call("move", r.err, 0, 0)
    /\ UNCHANGED <<capacity, segvars>>

Update ==
    /\ \E id \in IdInputs(capacity), o \in {UNSET} \cup OrderInputs,
          p \in {UNSET, NULL} \cup IdInputs(capacity) :
         LET r == UpdateAgenda(agendas, id, o, p)
         IN /\ agendas' = r.agendas
            /\ last' = Call("update", r.err, 0, 0)
    /\ UNCHANGED <<capacity, segvars>>

Delete ==
    /\ \E id \in IdInputs(capacity) :
         LET r == DeleteAgenda(agendas, id)
         IN /\ agendas' = r.agendas
            /\ last' = Call("delete", r.err, 0, 0)
    /\ UNCHANGED <<capacity, segvars>>

Reorder ==
    /\ \E m \in MeetingInputs, items \in ItemLists(capacity) :
         LET r == ReorderAgendas(agendas, m, items)
         IN /\ agendas' = r.agendas
            /\ last' = Call("reorder", r.err, r.count, Len(items))
    /\ UNCHANGED <<capacity, segvars>>

\* The speech-to-text worker saves the transcript of a recording: segments
\* in time order, each with start, end and text and none of the keys
\* move_segment adds.
NewSegment(j, text) ==
    [start |-> 2 * (j - 1), end |-> 2 * j, text |-> text,
     matched_agenda_id |-> NULL, suggested_agenda_id |-> NULL,
     suggestion_accepted |-> "unset"]

SegmentLists ==
    UNION {{[j \in 1..n |-> NewSegment(j, f[j])] : f \in [1..n -> {"normal", "short"}]}
           : n \in 0..MaxSegments}

SaveTranscript ==
    /\ Len(transcripts) < MaxTranscripts
    /\ \E m \in Meetings, segs \in SegmentLists :
         transcripts' = Append(transcripts, [meeting_id |-> m, segments |-> segs])
    /\ UNCHANGED <<agendas, capacity, last, analysis, status, tx>>

\* The segment indexes a request is tried with: every global index of the
\* stored segments and the first one past them.
RECURSIVE SegmentCount(_, _)
SegmentCount(trs, t) == IF t = 0 THEN 0 ELSE Len(trs[t].segments) + SegmentCount(trs, t - 1)

SegIndexInputs(trs) == 0..SegmentCount(trs, Len(trs))

RECURSIVE RangeCount(_, _)
RangeCount(ag, i) == IF i = 0 THEN 0 ELSE Len(ag[i].time_segments) + RangeCount(ag, i - 1)

RangesInBound(ag) == RangeCount(ag, Len(ag)) <= MaxRanges

MoveSegmentCall ==
    \E m \in MeetingInputs, idx \in SegIndexInputs(transcripts),
       target \in IdInputs(capacity), accept \in BOOLEAN :
      \E r \in MoveSegment(agendas, transcripts, m, idx, target, accept) :
        /\ RangesInBound(r.agendas)
        /\ agendas' = r.agendas
        /\ transcripts' = r.transcripts
        /\ last' = Call("move_segment", r.err, IF r.err = "ok" THEN target ELSE NULL, 0)
        /\ UNCHANGED <<capacity, analysis, status, tx>>

\* The oracle's answers: a failed call, text that is no JSON, JSON of
\* another shape, or a list of result objects.  An absent index is NoTime, an
\* absent confidence 0, an absent or null suggested_agenda_id NULL.
Confidences == {0, MIN_CONFIDENCE - 1, MIN_CONFIDENCE}

OracleResults ==
    [index : {NoTime, 0, 1}, is_matched_correctly : BOOLEAN,
     suggested_agenda_id : {NULL, 2}, confidence : Confidences]

OracleAnswers ==
    {[kind |-> k, results |-> <<>>] : k \in {"call_failure", "not_json", "malformed"}}
    \cup {[kind |-> "list", results |-> rs] :
            rs \in UNION {[1..n -> OracleResults] : n \in 0..MaxResults}}

\* POST /meetings/{m}/analyze-segments up to the response.
AnalyzeCall ==
    /\ analysis.state = "none"
    /\ \E m \in MeetingInputs, force \in BOOLEAN, oracle \in OracleAnswers :
         IF m \notin Meetings
         THEN analysis' = AnalysisResult("not_found", 0, 0, <<>>, "none", NotAsked)
         ELSE \E flat \in FlatOrders(transcripts, m), order \in AgendaOrders(agendas, m) :
                analysis' = AnalyzeSegments(agendas, transcripts, flat, force, oracle, order)
    /\ UNCHANGED <<agendas, capacity, last, transcripts, status, tx>>

Respond ==
    /\ analysis.state # "none"
    /\ analysis' = NoAnalysis
    /\ UNCHANGED <<agendas, capacity, last, transcripts, status, tx>>

\* create() and move() alone, from the empty table.
InitCM == InitTable(MaxAgendas)

NextCM == Create \/ Move

SpecCM == InitCM /\ [][NextCM]_vars

\* Every operation of the agenda store.
Init == InitTable(MaxStoreAgendas)

Next == Create \/ Update \/ Delete \/ Reorder \/ Move

Spec == Init /\ [][Next]_vars

\* create(), delete() and reorder().
NextReorder == Create \/ Delete \/ Reorder

SpecReorder == Init /\ [][NextReorder]_vars

\* A meeting with agendas set up through the store: agenda 1 owns the time
\* range [0, 2), agenda 2 has only a start time, agenda 3 is soft-deleted,
\* agenda 4 belongs to the other meeting.  No transcript is saved yet.
SegAgenda(m, o, deleted, started, ranges) ==
    [meeting_id |-> m, parent_id |-> NULL, level |-> 0, order_num |-> o,
     deleted |-> deleted, started_at_seconds |-> started, time_segments |-> ranges]

SegAgendas ==
    <<SegAgenda(1, 0, FALSE, NoTime, <<[start |-> 0, end |-> 2]>>),
      SegAgenda(1, 1, FALSE, 2, <<>>),
      SegAgenda(1, 2, TRUE, NoTime, <<>>),
      SegAgenda(2, 0, FALSE, NoTime, <<>>)>>

InitSeg ==
    /\ agendas = SegAgendas
    /\ capacity = Len(SegAgendas)
    /\ last = NoCall
    /\ transcripts = <<>>
    /\ analysis = NoAnalysis
    /\ status = NewMeetings
    /\ tx = NoSessions

NextSegMove == SaveTranscript \/ MoveSegmentCall

SpecSegMove == InitSeg /\ [][NextSegMove]_vars

NextAnalyze == SaveTranscript \/ AnalyzeCall \/ Respond

SpecAnalyze == InitSeg /\ [][NextAnalyze]_vars

\* ------------------------------------------------------- times of agendas
\* update_agenda(agenda_id, AgendaUpdate) for a request that carries
\* started_at_seconds (when setStarted) and time_segments (when setRanges)
\* and no other field: each is written as sent.  An empty list and null
\* are both falsy to every reader; <<>> stands for both.
UpdateAgendaTimes(ag, id, setStarted, started, setRanges, ranges) ==
    IF ~Active(ag, id) THEN Result(ag, "not_found")
    ELSE Result([ag EXCEPT ![id].started_at_seconds = IF setStarted THEN started ELSE @,
                           ![id].time_segments = IF setRanges THEN ranges ELSE @],
                "ok")

\* TimeSegment values a request is tried with: start >= 0, end >= 0 or null,
\* no order between them required.
TimeRanges ==
    {[start |-> 0, end |-> 0], [start |-> 0, end |-> 2],
     [start |-> 1, end |-> 3], [start |-> 2, end |-> NoTime]}

RangeLists == UNION {[1..n -> TimeRanges] : n \in 0..MaxRanges}

StartedInputs == {NoTime, 0, 2}

UpdateTimes ==
    /\ \E id \in IdInputs(capacity), setStarted \in BOOLEAN, setRanges \in BOOLEAN :
       \E started \in IF setStarted THEN StartedInputs ELSE {NoTime},
          ranges \in IF setRanges THEN RangeLists ELSE {<<>>} :
         LET r == UpdateAgendaTimes(agendas, id, setStarted, started, setRanges, ranges)
         IN /\ agendas' = r.agendas
            /\ last' = Call("update", r.err, 0, 0)
    /\ UNCHANGED <<capacity, segvars>>

\* The segment starts the mapper is tried with.
SegmentStarts == 0..3

\* analyze_segments resolving the current agenda of one segment of meeting
\* m: _find_matched_agenda over the active agendas in meeting.agendas order.
MapSegment ==
    /\ \E m \in Meetings, s \in SegmentStarts :
         \E order \in AgendaOrders(agendas, m) :
           last' = Call("map", "ok", FindMatchedAgenda(agendas, s, order), s)
    /\ UNCHANGED <<agendas, capacity, segvars>>

\* Two active agendas of meeting 1 without times yet, and a soft-deleted one
\* that was given an open range before it was deleted.
MapAgendas ==
    <<SegAgenda(1, 0, FALSE, NoTime, <<>>),
      SegAgenda(1, 1, FALSE, NoTime, <<>>),
      SegAgenda(1, 0, TRUE, NoTime, <<[start |-> 0, end |-> NoTime]>>)>>

InitMapper ==
    /\ agendas = MapAgendas
    /\ capacity = Len(MapAgendas)
    /\ last = NoCall
    /\ transcripts = <<>>
    /\ analysis = NoAnalysis
    /\ status = NewMeetings
    /\ tx = NoSessions

NextMapper == UpdateTimes \/ MapSegment

SpecMapper == InitMapper /\ [][NextMapper]_vars

\* ---------------------------------------------------------------- listings
\* GET /meetings/{m}/agendas: list_agendas_tree (tree) or list_agendas (flat)
\* select the active roots, or all active rows, of the meeting; the router
\* then converts each with its children, recursively, through the children
\* relationship, which filters nothing.  The rows the response holds at any
\* depth; the conversion of a row that is below itself does not end.
ListTop(ag, m, tree) ==
    {i \in Ids(ag) : /\ ag[i].meeting_id = m
                     /\ ~ag[i].deleted
                     /\ tree => ag[i].parent_id = NULL}

ListAgendas(ag, m, tree) ==
    LET top == ListTop(ag, m, tree)
        all == top \cup UNION {Descendants(ag, i) : i \in top}
    IN IF m \notin Meetings THEN [err |-> "not_found", ids |-> {}]
       ELSE IF \E i \in all : i \in Descendants(ag, i)
       THEN [err |-> "recursion", ids |-> {}]
       ELSE [err |-> "ok", ids |-> all]

List ==
    /\ \E m \in MeetingInputs, tree \in BOOLEAN :
         LET r == ListAgendas(agendas, m, tree)
         IN last' = Call("list", r.err, r.ids, IF tree THEN 1 ELSE 0)
    /\ UNCHANGED <<agendas, capacity, segvars>>

NextList == Create \/ Delete \/ Move \/ List

SpecList == Init /\ [][NextList]_vars

\* ------------------------------------------------------------ meeting status
Statuses == {"draft", "in_progress", "completed"}

\* valid_transitions of _validate_status_transition with draft -> completed
\* allowed as well.
ValidTransitionSkipping(cur, new) ==
    \/ cur = "draft" /\ new \in {"in_progress", "completed"}
    \/ cur = "in_progress" /\ new = "completed"

\* valid_transitions of _validate_status_transition.
ValidTransition(cur, new) ==
    \/ cur = "draft" /\ new = "in_progress"
    \/ cur = "in_progress" /\ new = "completed"

\* PATCH /meetings/{m} with MeetingUpdate(status = new): "unset" is a request
\* without the field, "null" one that sends null.  A rejected transition
\* raises ValueError; for null the error message itself cannot be built and
\* AttributeError is raised instead.  Either way nothing is written.
UpdateMeeting(st, m, new) ==
    IF m \notin Meetings THEN [status |-> st, err |-> "not_found"]
    ELSE IF new = "unset" THEN [status |-> st, err |-> "ok"]
    ELSE IF new # st[m] /\ ~ValidTransition(st[m], new)
    THEN [status |-> st,
          err |-> IF new = "null" THEN "attribute_error" ELSE "value_error"]
    ELSE [status |-> [st EXCEPT ![m] = new], err |-> "ok"]

StatusInputs == Statuses \cup {"unset", "null"}

UpdateMeetingCall ==
    /\ \E m \in MeetingInputs, new \in StatusInputs :
         LET r == UpdateMeeting(status, m, new)
         IN /\ status' = r.status
            /\ last' = Call("update_meeting", r.err, m, new)
    /\ UNCHANGED <<agendas, capacity, transcripts, analysis, tx>>

NextStatus == UpdateMeetingCall

SpecStatus == Init /\ [][NextStatus]_vars

\* ------------------------------------------------- per-agenda summarization
\* The result task gathers the segments of the meeting's transcripts and
\* sorts them by start; get_agenda_transcript then picks the segments of one
\* agenda.  A segment is named by its position <<transcript, index>>.
\* Midpoints are compared doubled: 2 * start <= s.start + s.end < 2 * end,
\* where an end of NoTime is no end.
MidpointIn(start, end, seg) ==
    /\ 2 * start <= seg.start + seg.end
    /\ (end = NoTime \/ seg.start + seg.end < 2 * end)

\* The end of a range as read by "seg.get('end') or float('inf')": null and
\* 0 both give no end.
RangeEnd(ts) == IF ts.end = NoTime \/ ts.end = 0 THEN NoTime ELSE ts.end

\* The segments one order of meeting.transcripts gives, sorted by start
\* (a stable sort).
RECURSIVE SortByStart(_, _)
SortByStart(trs, flat) ==
    IF flat = <<>> THEN <<>>
    ELSE LET k == CHOOSE k \in DOMAIN flat :
                    \A j \in DOMAIN flat :
                        \/ SegmentAt(trs, flat[k]).start < SegmentAt(trs, flat[j]).start
                        \/ SegmentAt(trs, flat[k]).start = SegmentAt(trs, flat[j]).start /\ k <= j
         IN <<flat[k]>> \o SortByStart(trs, [j \in 1..(Len(flat) - 1) |->
                                                 IF j < k THEN flat[j] ELSE flat[j + 1]])

\* The matching list for one [start, end): the segments with a text whose
\* midpoint lies in it.
RECURSIVE Matching(_, _, _, _, _)
Matching(trs, segs, start, end, k) ==
    IF k > Len(segs) THEN <<>>
    ELSE (IF SegmentAt(trs, segs[k]).text # "empty"
             /\ MidpointIn(start, end, SegmentAt(trs, segs[k]))
          THEN <<segs[k]>> ELSE <<>>) \o Matching(trs, segs, start, end, k + 1)

\* What one range of time_segments contributes.
RangeTexts(trs, segs, ts) == Matching(trs, segs, ts.start, RangeEnd(ts), 1)

RECURSIVE RangesTexts(_, _, _, _)
RangesTexts(trs, segs, ranges, j) ==
    IF j > Len(ranges) THEN <<>>
    ELSE RangeTexts(trs, segs, ranges[j]) \o RangesTexts(trs, segs, ranges, j + 1)

\* The end boundary of a legacy agenda: the started_at_seconds of the next
\* agenda of meeting.agendas (deleted ones included) in sorted order, for one
\* order the sort may give to equal values; none for the last.
LegacyEnd(ag, id, m) ==
    LET started == {i \in Ids(ag) : ag[i].meeting_id = m /\ ag[i].started_at_seconds # NoTime}
        later == {i \in started \ {id} :
                    \/ ag[i].started_at_seconds > ag[id].started_at_seconds
                    \/ ag[i].started_at_seconds = ag[id].started_at_seconds
                       /\ <<ag[i].order_num, i>> # <<ag[id].order_num, id>>
                       /\ (ag[i].order_num > ag[id].order_num
                           \/ (ag[i].order_num = ag[id].order_num /\ i > id))}
    IN IF later = {} THEN NoTime
       ELSE CHOOSE e \in {ag[i].started_at_seconds : i \in later} :
              \A i \in later : e <= ag[i].started_at_seconds

\* get_agenda_transcript(agenda, all_segs): the segments whose text is joined.
AgendaTranscript(ag, trs, id, segs) ==
    IF ag[id].time_segments # <<>>
    THEN RangesTexts(trs, segs, ag[id].time_segments, 1)
    ELSE IF ag[id].started_at_seconds # NoTime
    THEN Matching(trs, segs, ag[id].started_at_seconds,
                  LegacyEnd(ag, id, ag[id].meeting_id), 1)
    ELSE <<>>

\* The result task up to the per-agenda transcripts: for every agenda of
\* meeting.agendas, the segments get_agenda_transcript picks.
Summaries(ag, trs, m, flat) ==
    [id \in {i \in Ids(ag) : ag[i].meeting_id = m} |->
        AgendaTranscript(ag, trs, id, SortByStart(trs, flat))]

Summarize ==
    /\ \E m \in Meetings :
         \E flat \in FlatOrders(transcripts, m) :
           last' = Call("summarize", "ok", Summaries(agendas, transcripts, m, flat), m)
    /\ UNCHANGED <<agendas, capacity, segvars>>

\* The agendas of the mapper development and one saved transcript of
\* meeting 1 with two segments, [0, 2] and [2, 4].
SummaryTranscripts ==
    <<[meeting_id |-> 1,
       segments |-> <<NewSegment(1, "normal"), NewSegment(2, "normal")>>]>>

InitSummary ==
    /\ agendas = MapAgendas
    /\ capacity = Len(MapAgendas)
    /\ last = NoCall
    /\ transcripts = SummaryTranscripts
    /\ analysis = NoAnalysis
    /\ status = NewMeetings
    /\ tx = NoSessions

NextSummary == UpdateTimes \/ Summarize

SpecSummary == InitSummary /\ [][NextSummary]_vars

\* ---------------------------------------------------- analysis of stored data
\* analyze_segments as a function of what the transcripts table holds: one
\* transcript of meeting 1 whose two segments may carry a
\* suggested_agenda_id, as the filter at the head of analyze_segments expects.
StoredSegment(j, text, suggested) ==
    [NewSegment(j, text) EXCEPT !.suggested_agenda_id = suggested]

StoredTranscripts ==
    {<<[meeting_id |-> 1,
        segments |-> <<StoredSegment(1, t[1], g[1]), StoredSegment(2, t[2], g[2])>>]>> :
        t \in [1..2 -> {"normal", "short"}], g \in [1..2 -> {NULL, 2}]}

InitStored ==
    /\ agendas = SegAgendas
    /\ capacity = Len(SegAgendas)
    /\ last = NoCall
    /\ transcripts \in StoredTranscripts
    /\ analysis = NoAnalysis
    /\ status = NewMeetings
    /\ tx = NoSessions

NextStored == AnalyzeCall \/ Respond

SpecStored == InitStored /\ [][NextStored]_vars

\* ------------------------------------------------- decisions on stored data
\* PATCH /meetings/{m}/segments/{idx}/move on segments that carry a
\* suggested_agenda_id: the accept/reject decision on a stored suggestion.
NextStoredMove == MoveSegmentCall

SpecStoredMove == InitStored /\ [][NextStoredMove]_vars

\* ------------------------------------------------------- hierarchical labels
\* Both call sites read every row of the meeting, soft-deleted ones
\* included (a SELECT by meeting_id, and meeting.agendas), and sort siblings
\* by order_num; rows with equal order_num come in any order.  A label is
\* the sequence of the numbers its string joins with dots.
MeetingRows(ag, m) == {i \in Ids(ag) : ag[i].meeting_id = m}

RowOrders(ag, m) ==
    {f \in [1..Cardinality(MeetingRows(ag, m)) -> MeetingRows(ag, m)] :
        /\ \A j, k \in DOMAIN f : j # k => f[j] # f[k]
        /\ \A j, k \in DOMAIN f : j < k => ag[f[j]].order_num <= ag[f[k]].order_num}

\* enumerate(sorted(rows), 1): the 1-based position of i among the rows S.
Rank(order, S, i) ==
    LET pos(x) == CHOOSE k \in DOMAIN order : order[k] = x
    IN Cardinality({j \in S : pos(j) <= pos(i)})

SiblingRows(ag, m, i) == {j \in MeetingRows(ag, m) : ag[j].parent_id = ag[i].parent_id}

\* How deep below a root of the meeting row i was reached by the three
\* nested loops: 1 for a root, 2 for a child, 3 for a grandchild, 0 when the
\* loops never reach it.
LoopDepth(ag, m, i) ==
    LET p == ag[i].parent_id
    IN IF p = NULL THEN 1
       ELSE IF p \notin MeetingRows(ag, m) THEN 0
       ELSE IF ag[p].parent_id = NULL THEN 2
       ELSE IF ag[p].parent_id \notin MeetingRows(ag, m) THEN 0
       ELSE IF ag[ag[p].parent_id].parent_id = NULL THEN 3
       ELSE 0

\* get_meeting_discussions: hierarchical_orders.get(agenda_id, "0").
DiscussionLabel(ag, m, order, i) ==
    LET p == ag[i].parent_id
        r(x) == Rank(order, SiblingRows(ag, m, x), x)
        d == LoopDepth(ag, m, i)
    IN IF d = 1 THEN <<r(i)>>
       ELSE IF d = 2 THEN <<r(p), r(i)>>
       ELSE IF d = 3 THEN <<r(ag[p].parent_id), r(p), r(i)>>
       ELSE <<0>>

\* generate_meeting_result: hierarchical_orders.get(agenda.id,
\* str(agenda.order_num)), a root's label being str(parent.order_num).
SummaryLabel(ag, m, order, i) ==
    LET p == ag[i].parent_id
        r(x) == Rank(order, SiblingRows(ag, m, x), x)
        d == LoopDepth(ag, m, i)
    IN IF d = 1 THEN <<ag[i].order_num>>
       ELSE IF d = 2 THEN <<ag[p].order_num, r(i)>>
       ELSE IF d = 3 THEN <<ag[ag[p].parent_id].order_num, r(p), r(i)>>
       ELSE <<ag[i].order_num>>

\* GET /meetings/{m}/discussions and the result task, each up to the labels
\* of the meeting's agendas.
Discussions ==
    /\ \E m \in Meetings : \E order \in RowOrders(agendas, m) :
         last' = Call("discussions", "ok",
                      [i \in MeetingRows(agendas, m) |-> DiscussionLabel(agendas, m, order, i)], m)
    /\ UNCHANGED <<agendas, capacity, segvars>>

GenerateResult ==
    /\ \E m \in Meetings : \E order \in RowOrders(agendas, m) :
         last' = Call("generate_result", "ok",
                      [i \in MeetingRows(agendas, m) |-> SummaryLabel(agendas, m, order, i)], m)
    /\ UNCHANGED <<agendas, capacity, segvars>>

NextLabels == Create \/ Delete \/ Discussions \/ GenerateResult

SpecLabels == InitCM /\ [][NextLabels]_vars

\* ------------------------------------------------- move() in its session
\* POST /agendas/{id}/move as the steps of its request's session (get_db):
\* move_agenda reads and validates, changes the loaded rows in memory
\* (autoflush is off), flushes them as UPDATEs inside the session's
\* transaction, and the router commits.  A transaction is the table the
\* session read and the table as the session wrote it.  The reads of one
\* move_agenda call are taken as one read of the committed table.
\* served counts the moves the session's connection has taken up.
NoTx == [pc |-> "idle", read |-> <<>>, written |-> <<>>, served |-> 0]

Closed(t) == [pc |-> "idle", read |-> <<>>, written |-> <<>>, served |-> t.served]

\* The rows a flush sends an UPDATE for: those with a changed attribute.
WrittenRows(t) == {i \in Ids(t.read) : t.written[i] # t.read[i]}

\* COMMIT: the UPDATEs of a flush set, row by row, the attributes the
\* session changed and no other; move_agenda changes parent_id, level and
\* order_num.
CommitWrites(ag, read, written) ==
    [i \in Ids(ag) |->
        IF i \notin Ids(read) THEN ag[i]
        ELSE [ag[i] EXCEPT
                !.parent_id = IF written[i].parent_id # read[i].parent_id
                              THEN written[i].parent_id ELSE @,
                !.level = IF written[i].level # read[i].level
                          THEN written[i].level ELSE @,
                !.order_num = IF written[i].order_num # read[i].order_num
                              THEN written[i].order_num ELSE @]]

\* A flush whose UPDATEs are committed one by one as they are sent.
AfterFlushAutocommit(ag, t) == CommitWrites(ag, t.read, t.written)

\* The committed table after db.flush(): the UPDATEs stay inside the
\* session's transaction (autocommit is off).
AfterFlush(ag, t) == ag

MoveBegin ==
    /\ \E s \in DOMAIN tx, id \in IdInputs(capacity),
          p \in {NULL} \cup IdInputs(capacity), o \in OrderInputs :
         /\ tx[s].pc = "idle"
         /\ tx[s].served < MaxRequests
         /\ \E r \in MoveAgenda(agendas, id, p, o) :
              /\ LevelsInRange(r.agendas)
              /\ IF r.err = "ok"
                 THEN /\ tx' = [tx EXCEPT ![s] = [pc |-> "pending", read |-> agendas,
                                                  written |-> r.agendas,
                                                  served |-> tx[s].served + 1]]
                      /\ UNCHANGED last
                 ELSE /\ last' = Call("move", r.err, 0, 0)
                      /\ UNCHANGED tx
    /\ UNCHANGED <<agendas, capacity, transcripts, analysis, status>>

\* An UPDATE waits while another open transaction has written its row.
MoveFlush ==
    /\ \E s \in DOMAIN tx :
         /\ tx[s].pc = "pending"
         /\ \A o \in DOMAIN tx \ {s} :
              tx[o].pc = "flushed" => WrittenRows(tx[o]) \cap WrittenRows(tx[s]) = {}
         /\ agendas' = AfterFlush(agendas, tx[s])
         /\ tx' = [tx EXCEPT ![s].pc = "flushed"]
    /\ UNCHANGED <<capacity, last, transcripts, analysis, status>>

MoveCommit ==
    /\ \E s \in DOMAIN tx :
         /\ tx[s].pc = "flushed"
         /\ agendas' = CommitWrites(agendas, tx[s].read, tx[s].written)
         /\ tx' = [tx EXCEPT ![s] = Closed(tx[s])]
         /\ last' = Call("move", "ok", 0, 0)
    /\ UNCHANGED <<capacity, transcripts, analysis, status>>

\* get_db rolls the session back when the flush or the commit raises.
MoveRollback ==
    /\ \E s \in DOMAIN tx :
         /\ tx[s].pc \in {"pending", "flushed"}
         /\ tx' = [tx EXCEPT ![s] = Closed(tx[s])]
         /\ last' = Call("move", "error", 0, 0)
    /\ UNCHANGED <<agendas, capacity, transcripts, analysis, status>>

\* A statement of another session reading the agendas: it sees the
\* committed rows.
Read ==
    /\ last' = Call("read", "ok", agendas, 0)
    /\ UNCHANGED <<agendas, capacity, segvars>>

\* Agenda 1 with the child agenda 2, and agenda 3, all of meeting 1.
MoveTree ==
    <<[SegAgenda(1, 0, FALSE, NoTime, <<>>) EXCEPT !.parent_id = NULL],
      [SegAgenda(1, 0, FALSE, NoTime, <<>>) EXCEPT !.parent_id = 1, !.level = 1],
      SegAgenda(1, 1, FALSE, NoTime, <<>>)>>

\* Two root agendas of meeting 1.
RaceTree ==
    <<SegAgenda(1, 0, FALSE, NoTime, <<>>), SegAgenda(1, 1, FALSE, NoTime, <<>>)>>

InitSessions(tree, n) ==
    /\ agendas = tree
    /\ capacity = Len(tree)
    /\ last = NoCall
    /\ transcripts = <<>>
    /\ analysis = NoAnalysis
    /\ status = NewMeetings
    /\ tx = [s \in 1..n |-> NoTx]

\* One session that moves, request after request, and readers.
InitMoveRead == InitSessions(MoveTree, 1)

NextMoveRead == MoveBegin \/ MoveFlush \/ MoveCommit \/ MoveRollback \/ Read

SpecMoveRead == InitMoveRead /\ [][NextMoveRead]_vars

\* Moves in MaxSessions sessions at once.
InitRace == InitSessions(RaceTree, MaxSessions)

NextRace == MoveBegin \/ MoveFlush \/ MoveCommit \/ MoveRollback

SpecRace == InitRace /\ [][NextRace]_vars

\* ------------------------------------------------------ create() and update()
NextUpdate == Create \/ Update

SpecUpdate == Init /\ [][NextUpdate]_vars

\* ------------------------------------------------------------------ claims
\* No row is below itself by parent_id.
Acyclic(ag) == \A i \in Ids(ag) : i \notin Descendants(ag, i)

\* C1: after any sequence of create() and move() calls no agenda is its own
\* ancestor: following parent_id from any row reaches NULL.
C1_Acyclicity == Acyclic(agendas)

\* C2: for every active agenda A and every active descendant D of A, at any
\* depth, move(A, new_parent_id = D) fails with the Invalid error "own
\* descendant" and leaves the table as it was.
C2_MoveUnderDescendantRejected ==
    \A a \in Ids(agendas), d \in Ids(agendas), o \in OrderInputs :
        (Active(agendas, a) /\ Active(agendas, d) /\ d \in Descendants(agendas, a))
        => \A r \in MoveAgenda(agendas, a, d, o) :
               Invalid(r.err) /\ r.agendas = agendas

\* C3: move(node, new_parent_id = node) is rejected with an Invalid error
\* and the node keeps its parent_id and its level.
C3_MoveUnderItselfRejected ==
    \A a \in Ids(agendas), o \in OrderInputs :
        Active(agendas, a)
        => \A r \in MoveAgenda(agendas, a, a, o) :
               /\ Invalid(r.err)
               /\ r.agendas[a].parent_id = agendas[a].parent_id
               /\ r.agendas[a].level = agendas[a].level

\* Every row's level is 0 at the root and its parent's level + 1 below it.
LevelConsistent(ag) ==
    \A i \in Ids(ag) :
        ag[i].level = IF ag[i].parent_id = NULL THEN 0
                      ELSE ag[ag[i].parent_id].level + 1

\* C4: after any sequence of create() and move() calls every agenda has
\* level 0 when it has no parent and its parent's level + 1 otherwise.
C4_LevelConsistency == LevelConsistent(agendas)

\* C5: create(meeting, parent_id = p) and move(node, new_parent_id = p) fail
\* with an Invalid error and change no row whenever p is an active agenda of
\* another meeting than the target meeting (create) or than the active
\* node's meeting (move).
C5_CrossMeetingParentRejected ==
    \A p \in Ids(agendas) :
        Active(agendas, p)
        => /\ \A m \in Meetings :
                 agendas[p].meeting_id # m
                 => LET r == CreateAgenda(agendas, m, p)
                    IN Invalid(r.err) /\ r.agendas = agendas
           /\ \A a \in Ids(agendas), o \in OrderInputs :
                 (Active(agendas, a) /\ agendas[p].meeting_id # agendas[a].meeting_id)
                 => \A r \in MoveAgenda(agendas, a, p, o) :
                        Invalid(r.err) /\ r.agendas = agendas

\* C6: after any sequence of create, update, delete, reorder and move calls
\* every agenda with a parent has its parent's meeting_id.
C6_ParentInSameMeeting ==
    \A i \in Ids(agendas) :
        agendas[i].parent_id # NULL
        => agendas[agendas[i].parent_id].meeting_id = agendas[i].meeting_id

\* The items of a request that match an active agenda of the meeting.
Matched(ag, m, items) ==
    {k \in 1..Len(items) :
        Active(ag, items[k].id) /\ ag[items[k].id].meeting_id = m}

\* C7: reorder(meeting, items) changes nothing but the order_num of listed
\* agendas that are active agendas of the meeting, and returns how many of
\* the listed items matched such an agenda.
C7_ReorderFrame ==
    \A m \in MeetingInputs, items \in ItemLists(capacity) :
        LET r == ReorderAgendas(agendas, m, items)
        IN /\ Len(r.agendas) = Len(agendas)
           /\ \A i \in Ids(agendas) :
                 /\ [r.agendas[i] EXCEPT !.order_num = agendas[i].order_num]
                        = agendas[i]
                 /\ r.agendas[i].order_num # agendas[i].order_num
                    => /\ \E k \in 1..Len(items) : items[k].id = i
                       /\ Active(agendas, i)
                       /\ agendas[i].meeting_id = m
           /\ r.err = "ok" => r.count = Cardinality(Matched(agendas, m, items))
           /\ r.err # "ok" => r.agendas = agendas

\* A reorder of two listed items of which one matched.
C7_Witness ==
    /\ last.op = "reorder" /\ last.err = "ok"
    /\ last.n = 2 /\ last.ret = 1
    /\ \E i \in Ids(agendas) : agendas[i].deleted
    /\ \E i, j \in Ids(agendas) : agendas[i].meeting_id # agendas[j].meeting_id

\* The active agendas of meeting m under parent p: a full sibling set.
Siblings(ag, m, p) ==
    {i \in Ids(ag) : ag[i].meeting_id = m /\ ~ag[i].deleted /\ ag[i].parent_id = p}

\* The enumerations of a set, and those ORDER BY order_num may return.
Enumerations(S) ==
    {f \in [1..Cardinality(S) -> S] : \A j, k \in DOMAIN f : j # k => f[j] # f[k]}

SortedByOrderNum(ag, S) ==
    {f \in Enumerations(S) :
        \A j, k \in DOMAIN f : j < k => ag[f[j]].order_num <= ag[f[k]].order_num}

\* C8: for a full set of n active siblings and any permutation of 0..n-1,
\* a reorder() giving each sibling its number leaves the siblings, sorted by
\* order_num, in exactly the order the permutation gives.
C8_ReorderPermutation ==
    \A m \in Meetings, p \in {NULL} \cup Ids(agendas) :
        LET S == Siblings(agendas, m, p)
            n == Cardinality(S)
        IN \A want \in Enumerations(S), listing \in Enumerations(S) :
              LET rank(i) == CHOOSE k \in 1..n : want[k] = i
                  items == [k \in 1..n |->
                              [id |-> listing[k], order_num |-> rank(listing[k]) - 1]]
                  r == ReorderAgendas(agendas, m, items)
              IN SortedByOrderNum(r.agendas, S) = {want}

\* A reorder of both of two siblings that put the later-created one first.
C8_Witness ==
    /\ last.op = "reorder" /\ last.err = "ok"
    /\ last.n = 2 /\ last.ret = 2
    /\ \E m \in Meetings, p \in {NULL} \cup Ids(agendas) :
          LET S == Siblings(agendas, m, p)
          IN /\ Cardinality(S) = 2
             /\ \E i, j \in S : /\ i < j
                                /\ agendas[j].order_num = 0
                                /\ agendas[i].order_num = 1

\* C9: analyze_segments never returns a suggestion for an oracle result whose
\* confidence is below 0.7, whatever the result's is_matched_correctly and
\* suggested_agenda_id: every returned suggestion stems from a result of the
\* oracle's answer with confidence >= MIN_CONFIDENCE, and carries it.
C9_NoLowConfidenceSuggestion ==
    analysis.state = "returned" =>
        \A k \in DOMAIN analysis.suggestions :
            LET sug == analysis.suggestions[k]
            IN /\ sug.src \in DOMAIN analysis.oracle.results
               /\ analysis.oracle.results[sug.src].confidence >= MIN_CONFIDENCE
               /\ sug.confidence = analysis.oracle.results[sug.src].confidence

\* An analysis returned one suggestion although the oracle answered with two
\* unmatched results naming an agenda for analyzed segments: the one just
\* below the threshold was dropped.
C9_Witness ==
    /\ analysis.state = "returned"
    /\ Len(analysis.suggestions) = 1
    /\ Len(analysis.oracle.results) = 2
    /\ \A k \in 1..2 :
         /\ ~analysis.oracle.results[k].is_matched_correctly
         /\ analysis.oracle.results[k].suggested_agenda_id # NULL
    /\ analysis.oracle.results[1].index = 0
    /\ analysis.oracle.results[2].index = 1
    /\ analysis.oracle.results[1].confidence = MIN_CONFIDENCE - 1
    /\ analysis.oracle.results[2].confidence = MIN_CONFIDENCE
    /\ analysis.analyzed = 2

\* C10: move_segment(meeting, i, target, accept_suggestion = TRUE) is atomic:
\* on success segment i has suggested_agenda_id null and matched_agenda_id =
\* target and target.time_segments has gained exactly the one entry
\* {start: segment.start, end: segment.end}; on any failure neither a
\* segment nor an agenda has been modified.
C10_MoveSegmentAtomic ==
    \A m \in MeetingInputs, idx \in SegIndexInputs(transcripts), target \in IdInputs(capacity) :
      \A r \in MoveSegment(agendas, transcripts, m, idx, target, TRUE) :
        IF r.err = "ok"
        THEN LET before == SegmentAt(transcripts, r.pos)
                 after == SegmentAt(r.transcripts, r.pos)
             IN /\ after.suggested_agenda_id = NULL
                /\ after.matched_agenda_id = target
                /\ r.agendas[target].time_segments =
                       Append(agendas[target].time_segments,
                              [start |-> before.start, end |-> before.end])
                /\ \A i \in Ids(agendas) \ {target} :
                       r.agendas[i].time_segments = agendas[i].time_segments
        ELSE r.agendas = agendas /\ r.transcripts = transcripts

\* A move was accepted: the segment carries the target and the target's
\* time_segments end with the segment's range.
C10_Witness ==
    /\ last.op = "move_segment"
    /\ last.err = "ok"
    /\ \E t \in DOMAIN transcripts : \E j \in DOMAIN transcripts[t].segments :
         LET seg == transcripts[t].segments[j]
             ts == agendas[last.ret].time_segments
         IN /\ seg.matched_agenda_id = last.ret
            /\ seg.suggestion_accepted = "true"
            /\ seg.suggested_agenda_id = NULL
            /\ ts # <<>>
            /\ ts[Len(ts)] = [start |-> seg.start, end |-> seg.end]

\* The agendas of a list that own start s by a time_segments entry, and the
\* first of them in the list.
RangeOwners(ag, s, order) ==
    {k \in DOMAIN order :
        \E j \in DOMAIN ag[order[k]].time_segments :
            RangeCovers(ag[order[k]].time_segments[j], s)}

\* C11: the start-based mapper returns the first agenda in iteration order
\* that has a time_segments entry with start <= s < end (end null = no end);
\* a segment starting exactly at a range's end is not owned by that range.
C11_MapperFirstRangeWins ==
    \A m \in Meetings, s \in SegmentStarts :
      \A order \in AgendaOrders(agendas, m) :
        RangeOwners(agendas, s, order) # {} =>
            FindMatchedAgenda(agendas, s, order) =
                order[CHOOSE k \in RangeOwners(agendas, s, order) :
                        \A j \in RangeOwners(agendas, s, order) : k <= j]

\* C17: when the agendas carry only started_at_seconds (no time_segments),
\* the mapper attributes a segment to the agenda whose started_at_seconds is
\* the greatest one not exceeding the segment's start.
LegacyOnly(ag, order) ==
    \A k \in DOMAIN order : ag[order[k]].time_segments = <<>>

Started(ag, s, order) ==
    {k \in DOMAIN order : ag[order[k]].started_at_seconds # NoTime
                          /\ ag[order[k]].started_at_seconds <= s}

C17_LegacyNearestStart ==
    \A m \in Meetings, s \in SegmentStarts :
      \A order \in AgendaOrders(agendas, m) :
        (LegacyOnly(agendas, order) /\ Started(agendas, s, order) # {}) =>
            LET a == FindMatchedAgenda(agendas, s, order)
            IN /\ a # NULL
               /\ \A k \in Started(agendas, s, order) :
                     agendas[order[k]].started_at_seconds <= agendas[a].started_at_seconds

\* C12: analyze_segments never raises because of the oracle: when the call
\* fails, the answer is no JSON, or the parsed answer is not a list of result
\* objects, it returns a result with no suggestions, mismatches_found = 0 and
\* an error string.
C12_OracleFailureDegrades ==
    analysis.oracle.kind \in {"call_failure", "not_json", "malformed"} =>
        /\ analysis.state = "returned"
        /\ analysis.suggestions = <<>>
        /\ analysis.mismatches_found = 0
        /\ analysis.error # "none"

\* C13: after any sequence of create, delete and move calls the agenda
\* listings of a meeting, tree-shaped and flat, hold at no depth a
\* soft-deleted agenda or a descendant of a soft-deleted agenda.
C13_ListingsExcludeDeleted ==
    \A m \in Meetings, tree \in BOOLEAN :
      \A i \in ListAgendas(agendas, m, tree).ids :
        /\ ~agendas[i].deleted
        /\ \A d \in Ids(agendas) : agendas[d].deleted => i \notin Descendants(agendas, d)

\* C14: create(meeting_id, parent_id) gives the new agenda order_num = 1 + the
\* greatest order_num among the active agendas of the meeting with the same
\* parent_id (the roots when parent_id is null), and 0 when there is none;
\* soft-deleted siblings are ignored.
C14_CreateOrderNum ==
    \A m \in Meetings, p \in {NULL} \cup Ids(agendas) :
        LET r == CreateAgenda(agendas, m, p)
            sib == Siblings(agendas, m, p)
            new == r.agendas[Len(agendas) + 1]
        IN r.err = "ok" =>
             /\ Len(r.agendas) = Len(agendas) + 1
             /\ sib = {} => new.order_num = 0
             /\ sib # {} =>
                  /\ \E i \in sib : new.order_num = agendas[i].order_num + 1
                  /\ \A i \in sib : agendas[i].order_num < new.order_num

\* The newest agenda was created with order_num 0 next to a soft-deleted
\* agenda of the same meeting and parent.
C14_Witness ==
    /\ last.op = "create"
    /\ last.err = "ok"
    /\ Len(agendas) >= 2
    /\ agendas[Len(agendas)].order_num = 0
    /\ \E i \in Ids(agendas) :
         /\ agendas[i].deleted
         /\ agendas[i].meeting_id = agendas[Len(agendas)].meeting_id
         /\ agendas[i].parent_id = agendas[Len(agendas)].parent_id

\* C15: move_segment with a target_agenda_id that names a soft-deleted agenda
\* of the meeting, or an agenda of another meeting, returns a structured
\* failure and modifies neither a segment nor an agenda's time_segments.
C15_MoveToDeletedOrForeignTargetFails ==
    \A m \in Meetings, idx \in SegIndexInputs(transcripts), accept \in BOOLEAN :
      \A target \in Ids(agendas) :
        (agendas[target].deleted \/ agendas[target].meeting_id # m) =>
          \A r \in MoveSegment(agendas, transcripts, m, idx, target, accept) :
            /\ r.err \in {"segment_not_found", "target_not_found"}
            /\ r.agendas = agendas
            /\ r.transcripts = transcripts

\* One step along draft -> in_progress -> completed.
Advances(cur, new) ==
    \/ cur = "draft" /\ new = "in_progress"
    \/ cur = "in_progress" /\ new = "completed"

\* C16: under MeetingService.update() a meeting's status only stays the same
\* or advances one step along draft -> in_progress -> completed; every other
\* requested transition (draft -> completed, any transition out of completed,
\* in_progress -> draft) raises ValueError and changes nothing.
C16_StatusTransitions ==
    \A m \in Meetings, new \in StatusInputs :
        LET r == UpdateMeeting(status, m, new)
        IN /\ r.status[m] = status[m] \/ Advances(status[m], r.status[m])
           /\ \A o \in Meetings \ {m} : r.status[o] = status[o]
           /\ (new \in Statuses /\ new # status[m] /\ ~Advances(status[m], new)) =>
                 (r.err = "value_error" /\ r.status = status)
           /\ (new \in Statuses /\ (new = status[m] \/ Advances(status[m], new))) =>
                 (r.err = "ok" /\ r.status[m] = new)

\* A completed meeting, reached by two accepted updates, refused to go back
\* to draft.
C16_Witness ==
    /\ last.op = "update_meeting"
    /\ last.err = "value_error"
    /\ last.ret \in Meetings
    /\ status[last.ret] = "completed"
    /\ last.n = "draft"

\* C18: in per-agenda summarization a segment's text is attributed to an
\* agenda's time range {start, end} exactly when the segment's midpoint
\* (start + end) / 2 satisfies start <= midpoint < end (end null = no end),
\* wherever the segment starts.
C18_MidpointAttribution ==
    \A m \in Meetings :
      \A flat \in FlatOrders(transcripts, m) :
        \A id \in Ids(agendas) : \A j \in DOMAIN agendas[id].time_segments :
          LET ts == agendas[id].time_segments[j]
              got == RangeTexts(transcripts, SortByStart(transcripts, flat), ts)
          IN \A k \in DOMAIN flat :
               LET seg == SegmentAt(transcripts, flat[k])
               IN (\E g \in DOMAIN got : got[g] = flat[k])
                    <=> (/\ 2 * ts.start <= seg.start + seg.end
                         /\ (ts.end = NoTime \/ seg.start + seg.end < 2 * ts.end))

\* C19: for each suggestion analyze_segments produces for a segment, that
\* segment's stored suggested_agenda_id is set to the suggested agenda id (so
\* that a later run without force_reanalyze skips the segment).
C19_SuggestionStored ==
    analysis.state = "returned" =>
        \A k \in DOMAIN analysis.suggestions :
            LET sug == analysis.suggestions[k]
            IN \E m \in Meetings : \E flat \in FlatOrders(transcripts, m) :
                 /\ sug.segment_index + 1 \in DOMAIN flat
                 /\ SegmentAt(transcripts, flat[sug.segment_index + 1]).suggested_agenda_id
                        = sug.suggested_agenda_id

\* C20: with force_reanalyze = false analyze_segments never sends to the
\* oracle, and never returns a suggestion for, a segment whose stored
\* suggested_agenda_id is non-null; with force_reanalyze = true such a segment
\* is filtered only by the length and filler-token rules.
C20_StoredSuggestionFilter ==
    analysis.oracle.kind # "not_asked" =>
      \E m \in Meetings : \E flat \in FlatOrders(transcripts, m) :
        LET seg(g) == SegmentAt(transcripts, flat[g + 1])
            o == analysis.oracle
        IN /\ o.prompt \subseteq 0..(Len(flat) - 1)
           /\ \A k \in DOMAIN analysis.suggestions :
                analysis.suggestions[k].segment_index \in o.prompt
           /\ ~o.force => \A g \in o.prompt : seg(g).suggested_agenda_id = NULL
           /\ o.force => o.prompt = {g \in 0..(Len(flat) - 1) : seg(g).text # "short"}

\* Without force_reanalyze the oracle was asked about the second segment
\* only, the first one carrying a stored suggestion; its answer about index 0
\* gave no suggestion, the one about index 1 did.
C20_Witness ==
    /\ analysis.state = "returned"
    /\ analysis.oracle.kind = "list"
    /\ ~analysis.oracle.force
    /\ analysis.oracle.prompt = {1}
    /\ transcripts[1].segments[1].suggested_agenda_id # NULL
    /\ transcripts[1].segments[1].text = "normal"
    /\ Len(analysis.oracle.results) = 2
    /\ analysis.oracle.results[1] =
         [index |-> 0, is_matched_correctly |-> FALSE,
          suggested_agenda_id |-> 2, confidence |-> MIN_CONFIDENCE]
    /\ analysis.oracle.results[2].index = 1
    /\ Len(analysis.suggestions) = 1
    /\ analysis.suggestions[1].segment_index = 1

\* C21: no suggestion analyze_segments returns is a self-match: the
\* suggested_agenda_id of every returned suggestion differs from the
\* current_agenda_id the mapper resolved for the segment.
C21_NoSelfMatch ==
    analysis.state = "returned" =>
        \A k \in DOMAIN analysis.suggestions :
            analysis.suggestions[k].suggested_agenda_id
                # analysis.suggestions[k].current_agenda_id

RECURSIVE RankLabel(_, _, _, _, _)
RankLabel(ag, S, order, i, depth) ==
    LET p == ag[i].parent_id
        r == Rank(order, {j \in S : ag[j].parent_id = p}, i)
    IN IF i \notin S THEN <<0>>
       ELSE IF p = NULL THEN <<r>>
       ELSE IF depth = 1 \/ RankLabel(ag, S, order, p, depth - 1) = <<0>> THEN <<0>>
       ELSE Append(RankLabel(ag, S, order, p, depth - 1), r)

\* C23: the discussion listing and the summary-generation task compute the
\* same hierarchical label for every agenda of a tree: the r-th root in
\* order_num order gets "r", its i-th child "r.i", that child's j-th child
\* "r.i.j" (ranks 1-based), and an agenda without a computed label gets "0".
C23_LabelSitesAgree ==
    \A m \in Meetings : \A order \in RowOrders(agendas, m) :
      \A i \in MeetingRows(agendas, m) :
        /\ DiscussionLabel(agendas, m, order, i)
               = RankLabel(agendas, MeetingRows(agendas, m), order, i, 3)
        /\ SummaryLabel(agendas, m, order, i)
               = RankLabel(agendas, MeetingRows(agendas, m), order, i, 3)

\* C24: hierarchical labels are computed over active agendas only: a
\* soft-deleted agenda takes no rank, so the labels of the active roots and
\* children are their 1-based ranks among the active siblings, without gaps.
C24_LabelsSkipDeleted ==
    \A m \in Meetings : \A order \in RowOrders(agendas, m) :
      \A i \in ActiveOf(agendas, m) :
        DiscussionLabel(agendas, m, order, i)
            = RankLabel(agendas, ActiveOf(agendas, m), order, i, 3)

C26_RaceKeepsAcyclic == Acyclic(agendas)

\* C27 as stated: update(node_id, {parent_id: p}) sets the node's parent_id
\* to p for every p, with no cycle, existence or same-meeting check, and
\* changes nothing else.
C27_UpdateParentUnchecked ==
    \A id \in Ids(agendas), p \in {NULL} \cup IdInputs(capacity) :
        Active(agendas, id) =>
            LET r == UpdateAgenda(agendas, id, UNSET, p)
            IN /\ r.err = "ok"
               /\ r.agendas = [agendas EXCEPT ![id].parent_id = p]

\* C27: update(node_id, {parent_id: p}) with p null or the id of any stored
\* agenda (the node itself, a descendant, a soft-deleted one, one of another
\* meeting) sets the node's parent_id to p and leaves the node's level and
\* every other row, the descendants' levels included, unchanged; with a p
\* that no agenda has, the update fails on the foreign key and changes
\* nothing.  Only the fields the request carries are modified.
C27_UpdateParentStoredOnly ==
    \A id \in Ids(agendas), o \in {UNSET} \cup OrderInputs,
       p \in {UNSET, NULL} \cup IdInputs(capacity) :
        Active(agendas, id) =>
            LET r == UpdateAgenda(agendas, id, o, p)
            IN IF p \notin {UNSET, NULL} /\ ~Exists(agendas, p)
               THEN r.err = "integrity" /\ r.agendas = agendas
               ELSE /\ r.err = "ok"
                    /\ Len(r.agendas) = Len(agendas)
                    /\ \A i \in Ids(agendas) \ {id} : r.agendas[i] = agendas[i]
                    /\ r.agendas[id].parent_id = IF p = UNSET THEN agendas[id].parent_id ELSE p
                    /\ r.agendas[id].order_num = IF o = UNSET THEN agendas[id].order_num ELSE o
                    /\ [r.agendas[id] EXCEPT !.parent_id = agendas[id].parent_id,
                                             !.order_num = agendas[id].order_num]
                           = agendas[id]

\* An update put a root agenda under an agenda of the other meeting and left
\* its level 0.
C27_Witness ==
    /\ last.op = "update"
    /\ last.err = "ok"
    /\ \E i \in Ids(agendas) :
         /\ agendas[i].parent_id # NULL
         /\ agendas[agendas[i].parent_id].meeting_id # agendas[i].meeting_id
         /\ agendas[i].level = 0

\* C28: a successful move() modifies only the moved node's parent_id, level
\* and order_num and the level of the nodes in its subtree: every node
\* outside the moved subtree keeps all of its fields, and the order_num of the
\* siblings at the old and at the new parent is not renumbered.
C28_MoveFrame ==
    \A id \in Ids(agendas), p \in {NULL} \cup Ids(agendas), o \in OrderInputs :
      \A r \in MoveAgenda(agendas, id, p, o) :
        r.err = "ok" =>
          /\ Len(r.agendas) = Len(agendas)
          /\ \A i \in Ids(agendas) :
               /\ i \notin Descendants(agendas, id) \cup {id} => r.agendas[i] = agendas[i]
               /\ i \in Descendants(agendas, id) \ {id} =>
                    [r.agendas[i] EXCEPT !.level = agendas[i].level] = agendas[i]
               /\ i = id =>
                    [r.agendas[i] EXCEPT !.parent_id = agendas[i].parent_id,
                                         !.level = agendas[i].level,
                                         !.order_num = agendas[i].order_num] = agendas[i]

\* A move put an agenda that has a child next to a sibling with the same
\* order_num: the sibling kept its number, the child is one level below.
C28_Witness ==
    /\ last.op = "move"
    /\ last.err = "ok"
    /\ \E i, j, c \in Ids(agendas) :
         /\ i # j
         /\ agendas[i].parent_id = agendas[j].parent_id
         /\ agendas[i].meeting_id = agendas[j].meeting_id
         /\ agendas[i].order_num = agendas[j].order_num
         /\ agendas[c].parent_id = i
         /\ c # i
         /\ agendas[c].level = agendas[i].level + 1

\* C29: for every oracle response analyze_segments returns at most one
\* suggestion per segment, mismatches_found = number of returned suggestions
\* <= analyzed <= total_segments, and every suggestion's segment_index is the
\* global index of a segment that was sent to the oracle.
C29_AnalysisCounts ==
    analysis.state = "returned" =>
        /\ \A j, k \in DOMAIN analysis.suggestions :
              j # k => analysis.suggestions[j].segment_index
                          # analysis.suggestions[k].segment_index
        /\ analysis.mismatches_found = Len(analysis.suggestions)
        /\ analysis.mismatches_found <= analysis.analyzed
        /\ analysis.analyzed <= analysis.total_segments
        /\ \A k \in DOMAIN analysis.suggestions :
              analysis.suggestions[k].segment_index \in analysis.oracle.prompt

\* C30: after a successful move_segment of segment s to agenda T, the
\* start-based mapper run on s.start returns T: the range appended to T takes
\* effect over the ranges of the agenda that owned s before.  A stored
\* matched_agenda_id names the target of the segment's last successful move.
C30_MapperFollowsMove ==
    \A t \in DOMAIN transcripts : \A j \in DOMAIN transcripts[t].segments :
        LET seg == transcripts[t].segments[j]
            m == transcripts[t].meeting_id
        IN seg.matched_agenda_id # NULL =>
             \A order \in AgendaOrders(agendas, m) :
                 FindMatchedAgenda(agendas, seg.start, order) = seg.matched_agenda_id

====
